---- MODULE Spec2Model ----
(***************************************************************************)
(* PortablePDFscanner: the camera-to-preview pipeline, the capture session *)
(* and the page/document bookkeeping of PDFScannerApp (test_main_v2.py),   *)
(* and the page/document bookkeeping of SimpleDocumentScanner (scanner.py).*)
(*                                                                         *)
(* The variable app says which of the two programs a behaviour is a run    *)
(* of.  A frame is identified by the number of the backend read that       *)
(* produced it (1, 2, ...), so a later read yields a larger number.        *)
(* Strings (document names, file names) are sequences of character codes.  *)
(***************************************************************************)
EXTENDS Integers, Sequences, FiniteSets, TLC

\* ------------------------------------------------------------------ bounds
MaxFrames == 2      \* backend reads that deliver a frame
MaxFaults == 1      \* failed file operations (page write, merge, render)
MaxTime == 1        \* clock seconds (int(time.time())) after start
MaxThreads == 2     \* acquisition threads alive at once
MaxAfter == 1       \* callbacks of one kind pending in window.after
MaxOutPages == 2    \* pages of an assembled file
MaxSide == 5        \* height of the small frame sizes

\* ------------------------------------------------------------------ values
None == 0
Frames == 1..MaxFrames
Threads == 1..MaxThreads

\* reportlab.lib.pagesizes.letter: width and height of the page, in points
letter == <<612, 792>>

\* the "main" and the "lores" stream of the Pi camera configuration
MainSize == <<1920, 1080>>
LoresSize == <<640, 480>>

\* the frame sizes a camera may deliver: the two configured ones, which lie,
\* and the small upright sizes of height MaxSide, which give the aspect
\* ratios k : MaxSide
ImageSizes == {MainSize, LoresSize} \cup {<<k, MaxSide>> : k \in 1..MaxSide}

VARIABLES
    app,              \* "v2" (PDFScannerApp) or "scanner" (SimpleDocumentScanner)
    USING_PICAMERA,   \* module flag of test_main_v2.py, fixed at import
    camera_active,    \* self.camera_active
    stop_event,       \* self.stop_event.is_set()
    backend,          \* self.picam2 / self.camera: "none", "open" or "bad"
    tpc,              \* position of each camera_stream thread
    tframe,           \* the local variable frame of each camera_stream thread
    frame_queue,      \* queue.Queue(maxsize=1), as a sequence
    frameNo,          \* number of frames the backend has delivered
    current_image,    \* the pending candidate, or None
    captured_images,  \* the in-memory committed pages
    pages_scanned,    \* the page counter of PDFScannerApp
    capturing,        \* self.capturing
    auto_mode,        \* self.auto_mode
    afterUpdate,      \* pending window.after(1, update_camera_canvas)
    afterAutoCapture, \* pending window.after(100, auto_capture)
    afterAutoSave,    \* pending window.after(2000, auto_save)
    current_doc_name, \* self.current_doc_name
    output_dir,       \* the timestamp in self.output_dir
    now,              \* int(time.time())
    files,            \* the file system: records [dir, name, content, by]
    page_count,       \* the page counter of SimpleDocumentScanner
    scan_state,       \* SimpleDocumentScanner.run: "off", "running", "crashed", "exited"
    faults,           \* number of file operations that have failed
    frame_size,       \* <<width, height>> of the frames the camera delivers
    committed,        \* history: the pages persisted for the active Document, in commit order
    lastOp            \* history: the operation that produced this state

vars == <<app, USING_PICAMERA, camera_active, stop_event, backend, tpc, tframe,
          frame_queue, frameNo, current_image, captured_images, pages_scanned,
          capturing, auto_mode, afterUpdate, afterAutoCapture, afterAutoSave,
          current_doc_name, output_dir, now, files, page_count, scan_state,
          faults, frame_size, committed, lastOp>>

cameraVars == <<camera_active, stop_event, backend>>
threadVars == <<tpc, tframe>>
sessionVars == <<current_image, captured_images, pages_scanned>>
autoVars == <<capturing, auto_mode>>
timerVars == <<afterUpdate, afterAutoCapture, afterAutoSave>>
docVars == <<current_doc_name, output_dir>>
scanVars == <<page_count, scan_state>>
fixedVars == <<app, USING_PICAMERA, frame_size>>

\* ------------------------------------------------------------------ strings
\* "Document", the initial self.current_doc_name
NameDocument == <<68, 111, 99, 117, 109, 101, 110, 116>>
\* "A", a name a user may type into the rename prompt
NameA == <<65>>
DocNames == {NameDocument, NameA}
\* "_complete.pdf"
CompleteSuffix == <<95, 99, 111, 109, 112, 108, 101, 116, 101, 46, 112, 100, 102>>
\* ".pdf"
PdfExt == <<46, 112, 100, 102>>

RECURSIVE Digits(_)
\* str(n) for n >= 0
Digits(n) == IF n < 10 THEN <<48 + n>> ELSE Digits(n \div 10) \o <<48 + (n % 10)>>

RECURSIVE ZeroPad(_, _)
\* left-pad with "0" to width w
ZeroPad(s, w) == IF Len(s) >= w THEN s ELSE ZeroPad(<<48>> \o s, w)

\* f"{n:03d}"
Format03d(n) == ZeroPad(Digits(n), 3)

\* f"{doc_name}_{index:03d}.pdf"
PageFileName(name, index) == name \o <<95>> \o Format03d(index) \o PdfExt

\* an output name that is the name of the first page file
CompleteNameIsFirstPage(name) == PageFileName(name, 1)

\* f"{doc_name}_complete.pdf"
CompleteFileName(name) == name \o CompleteSuffix

RECURSIVE LexLess(_, _)
\* Python's str < str: lexicographic by code point, a proper prefix is smaller
LexLess(a, b) ==
    IF b = <<>> THEN FALSE
    ELSE IF a = <<>> THEN TRUE
    ELSE IF Head(a) # Head(b) THEN Head(a) < Head(b)
    ELSE LexLess(Tail(a), Tail(b))

RECURSIVE Sorted(_)
\* sorted(names): the names of a set in ascending lexicographic order
Sorted(S) ==
    IF S = {} THEN <<>>
    ELSE LET m == CHOOSE x \in S : \A y \in S \ {x} : LexLess(x, y)
         IN <<m>> \o Sorted(S \ {m})

\* ------------------------------------------------------------------ file system
\* os.listdir(dir), filtered by endswith('.pdf'): every file the programs write
\* carries the .pdf extension
ListPdf(dir) == {f.name : f \in {g \in files : g.dir = dir}}

FileIn(fs, dir, name) == CHOOSE f \in fs : f.dir = dir /\ f.name = name

FileAt(dir, name) == FileIn(files, dir, name)

Exists(dir, name) == \E f \in files : f.dir = dir /\ f.name = name

\* the directory outside every document directory; files keeps the document
\* directories only, so a file written there is not recorded
Elsewhere == 0

\* the file system after (over)writing one file
WriteFile(fs, dir, name, content, by) ==
    IF dir = Elsewhere THEN fs
    ELSE {f \in fs : ~(f.dir = dir /\ f.name = name)}
             \cup {[dir |-> dir, name |-> name, content |-> content, by |-> by]}

RECURSIVE Concat(_, _)
\* the pages of the files named in order, one after the other
Concat(dir, names) ==
    IF names = <<>> THEN <<>>
    ELSE FileAt(dir, Head(names)).content \o Concat(dir, Tail(names))


\* ------------------------------------------------------------------ initial state
\* PDFScannerApp.__init__ ends with start_camera(), which either starts the
\* first acquisition thread or reports a camera error; SimpleDocumentScanner's
\* __init__ starts the camera and calls create_new_document().
TypeOK ==
    /\ app \in {"v2", "scanner"}
    /\ USING_PICAMERA \in BOOLEAN
    /\ camera_active \in BOOLEAN
    /\ stop_event \in BOOLEAN
    /\ backend \in {"none", "open", "bad"}
    /\ tpc \in [Threads -> {"none", "loop", "read", "full", "put", "after"}]
    /\ tframe \in [Threads -> Frames \cup {None}]
    /\ frame_queue \in Seq(Frames)
    /\ frameNo \in 0..MaxFrames
    /\ current_image \in Frames \cup {None}
    /\ captured_images \in Seq(Frames)
    /\ pages_scanned \in 0..(MaxFrames + MaxFaults)
    /\ capturing \in BOOLEAN
    /\ auto_mode \in BOOLEAN
    /\ afterUpdate \in 0..MaxAfter
    /\ afterAutoCapture \in 0..MaxAfter
    /\ afterAutoSave \in 0..MaxAfter
    /\ current_doc_name \in DocNames
    /\ output_dir \in 1..(1 + MaxTime)
    /\ now \in 1..(1 + MaxTime)
    /\ page_count \in 0..(MaxFrames + MaxFaults)
    /\ scan_state \in {"off", "running", "crashed", "exited"}
    /\ faults \in 0..MaxFaults
    /\ frame_size \in ImageSizes

InitCommon ==
    /\ tframe = [t \in Threads |-> None]
    /\ frame_queue = <<>>
    /\ frameNo = 0
    /\ current_image = None
    /\ captured_images = <<>>
    /\ pages_scanned = 0
    /\ capturing = FALSE
    /\ auto_mode = FALSE
    /\ afterUpdate = 0
    /\ afterAutoCapture = 0
    /\ afterAutoSave = 0
    /\ current_doc_name = NameDocument
    /\ now = 1
    /\ output_dir = 1
    /\ files = {}
    /\ page_count = 0
    /\ faults = 0
    /\ committed = <<>>
    /\ lastOp = "init"

InitV2 ==
    /\ app = "v2"
    /\ USING_PICAMERA \in BOOLEAN
    /\ scan_state = "off"
    /\ stop_event = FALSE
    /\ \/ /\ camera_active = TRUE
          /\ backend = "open"
          /\ tpc = [t \in Threads |-> IF t = 1 THEN "loop" ELSE "none"]
       \/ /\ camera_active = FALSE
          /\ backend \in (IF USING_PICAMERA THEN {"none", "bad"} ELSE {"bad"})
          /\ tpc = [t \in Threads |-> "none"]

InitScanner ==
    /\ app = "scanner"
    /\ USING_PICAMERA = TRUE
    /\ scan_state = "running"
    /\ stop_event = FALSE
    /\ camera_active = FALSE
    /\ backend = "open"
    /\ tpc = [t \in Threads |-> "none"]

Init == InitCommon /\ (InitV2 \/ InitScanner) /\ frame_size = MainSize

\* ------------------------------------------------------------------ camera_stream
\* while self.camera_active and not self.stop_event.is_set():
StreamLoop(t) ==
    /\ app = "v2"
    /\ tpc[t] = "loop"
    /\ tpc' = [tpc EXCEPT ![t] = IF camera_active /\ ~stop_event THEN "read" ELSE "none"]
    /\ lastOp' = "stream"
    /\ UNCHANGED <<fixedVars, cameraVars, tframe, frame_queue, frameNo, sessionVars,
                   autoVars, timerVars, docVars, now, faults, files, scanVars, committed>>

\* the backend delivers the next frame
StreamReadFrame(t) ==
    /\ backend = "open"
    /\ frameNo < MaxFrames
    /\ frameNo' = frameNo + 1
    /\ tframe' = [tframe EXCEPT ![t] = frameNo + 1]
    /\ tpc' = [tpc EXCEPT ![t] = "full"]
    /\ lastOp' = "stream"

\* a bad read that ends the thread
StreamReadBadEnds(t) ==
    /\ backend # "none"
    /\ tpc' = [tpc EXCEPT ![t] = "none"]
    /\ lastOp' = "stream"
    /\ UNCHANGED <<frameNo, tframe>>

\* capture_array raises, or camera.read() returns ret = False (continue): in
\* both cases the iteration ends without a frame and the loop test is next
StreamReadBad(t) ==
    /\ backend # "none"
    /\ tpc' = [tpc EXCEPT ![t] = "loop"]
    /\ lastOp' = "stream"
    /\ UNCHANGED <<frameNo, tframe>>

\* self.picam2 and self.camera are both None (stop_camera cleared them): no
\* branch assigns frame, so the name is unbound in the first iteration
\* (NameError, caught) and still holds the previous frame in a later one
StreamReadNone(t) ==
    /\ backend = "none"
    /\ tpc' = [tpc EXCEPT ![t] = IF tframe[t] = None THEN "loop" ELSE "full"]
    /\ lastOp' = "stream"
    /\ UNCHANGED <<frameNo, tframe>>

StreamRead(t) ==
    /\ app = "v2"
    /\ tpc[t] = "read"
    /\ \/ StreamReadFrame(t)
       \/ StreamReadBad(t)
       \/ StreamReadNone(t)
    /\ UNCHANGED <<fixedVars, cameraVars, frame_queue, sessionVars, autoVars,
                   timerVars, docVars, now, faults, files, scanVars, committed>>

\* if not self.frame_queue.full():
StreamFull(t) ==
    /\ app = "v2"
    /\ tpc[t] = "full"
    /\ tpc' = [tpc EXCEPT ![t] = IF Len(frame_queue) < 1 THEN "put" ELSE "after"]
    /\ lastOp' = "stream"
    /\ UNCHANGED <<fixedVars, cameraVars, tframe, frame_queue, frameNo, sessionVars,
                   autoVars, timerVars, docVars, now, faults, files, scanVars, committed>>

\* the queue after Queue.put(frame) has returned
QueuePut(q, frame) == Append(q, frame)

\* self.frame_queue.put(frame): a blocking put, which waits while the queue is full
StreamPut(t) ==
    /\ app = "v2"
    /\ tpc[t] = "put"
    /\ Len(frame_queue) < 1
    /\ frame_queue' = QueuePut(frame_queue, tframe[t])
    /\ tpc' = [tpc EXCEPT ![t] = "after"]
    /\ lastOp' = "stream"
    /\ UNCHANGED <<fixedVars, cameraVars, tframe, frameNo, sessionVars, autoVars,
                   timerVars, docVars, now, faults, files, scanVars, committed>>

\* self.window.after(1, self.update_camera_canvas), then the auto-capture check
\* (if self.auto_mode and not self.capturing), then time.sleep(0.01)
StreamAfter(t) ==
    /\ app = "v2"
    /\ tpc[t] = "after"
    /\ afterUpdate < MaxAfter
    /\ afterUpdate' = afterUpdate + 1
    /\ IF auto_mode /\ ~capturing
       THEN /\ afterAutoCapture < MaxAfter
            /\ capturing' = TRUE
            /\ afterAutoCapture' = afterAutoCapture + 1
       ELSE UNCHANGED <<capturing, afterAutoCapture>>
    /\ tpc' = [tpc EXCEPT ![t] = "loop"]
    /\ lastOp' = "stream"
    /\ UNCHANGED <<fixedVars, cameraVars, tframe, frame_queue, frameNo, sessionVars,
                   auto_mode, afterAutoSave, docVars, now, faults, files, scanVars, committed>>

camera_stream(t) ==
    \/ StreamLoop(t)
    \/ StreamRead(t)
    \/ StreamFull(t)
    \/ StreamPut(t)
    \/ StreamAfter(t)

\* ------------------------------------------------------------------ camera control
\* the lowest thread slot whose thread is not running
FreeThread == CHOOSE t \in Threads : tpc[t] = "none" /\ \A u \in Threads : tpc[u] = "none" => t <= u

\* start_camera: returns at once when active; otherwise opens the backend and,
\* unless that raised, sets the flags and starts a new camera_stream thread
start_camera ==
    /\ app = "v2"
    /\ IF camera_active
       THEN /\ lastOp' = "start_noop"
            /\ UNCHANGED <<cameraVars, tpc>>
       ELSE \/ /\ \E t \in Threads : tpc[t] = "none"
               /\ backend' = "open"
               /\ camera_active' = TRUE
               /\ stop_event' = FALSE
               /\ tpc' = [tpc EXCEPT ![FreeThread] = "loop"]
               /\ lastOp' = "start_ok"
            \/ /\ backend' \in (IF USING_PICAMERA THEN {backend, "bad"} ELSE {"bad"})
               /\ lastOp' = "start_error"
               /\ UNCHANGED <<camera_active, stop_event, tpc>>
    /\ UNCHANGED <<fixedVars, tframe, frame_queue, frameNo, sessionVars, autoVars,
                   timerVars, docVars, now, faults, files, scanVars, committed>>

\* a stop_camera without the early return: it requests the stop and drops the
\* backend even when the camera is not active
stop_camera_always ==
    /\ app = "v2"
    /\ camera_active' = FALSE
    /\ stop_event' = TRUE
    /\ backend' = "none"
    /\ lastOp' = IF ~camera_active THEN "stop_noop" ELSE "stop_ok"
    /\ UNCHANGED <<fixedVars, threadVars, frame_queue, frameNo, sessionVars, autoVars,
                   timerVars, docVars, now, faults, files, scanVars, committed>>

\* stop_camera: returns at once when not active; otherwise clears camera_active,
\* sets stop_event, stops or releases the backend and sets it to None. It does
\* not join the thread.
stop_camera ==
    /\ app = "v2"
    /\ IF ~camera_active
       THEN /\ lastOp' = "stop_noop"
            /\ UNCHANGED cameraVars
       ELSE /\ camera_active' = FALSE
            /\ stop_event' = TRUE
            /\ backend' = "none"
            /\ lastOp' = "stop_ok"
    /\ UNCHANGED <<fixedVars, threadVars, frame_queue, frameNo, sessionVars, autoVars,
                   timerVars, docVars, now, faults, files, scanVars, committed>>

\* ------------------------------------------------------------------ preview
\* a take that leaves the frame in the queue
QueuePeek(q) == q

\* the queue after frame_queue.get(False) has returned its head
QueueGet(q) == Tail(q)

\* update_camera_canvas, run by the Tk main loop for one window.after(1, ...)
update_camera_canvas ==
    /\ app = "v2"
    /\ afterUpdate > 0
    /\ afterUpdate' = afterUpdate - 1
    /\ IF frame_queue # <<>>
       THEN /\ frame_queue' = QueueGet(frame_queue)
            /\ lastOp' = "update_frame"
       ELSE /\ lastOp' = "update_empty"
            /\ UNCHANGED frame_queue
    /\ UNCHANGED <<fixedVars, cameraVars, threadVars, frameNo, sessionVars, autoVars,
                   afterAutoCapture, afterAutoSave, docVars, now, faults, files, scanVars, committed>>

\* ------------------------------------------------------------------ capture
\* capture_image with a guard that keeps a pending candidate
CaptureStoreKeepsPending(old, frame) == IF old # None THEN old ELSE frame

\* a failed capture that wipes the candidate
CaptureFailedClears(old) == None

\* the candidate after a capture_image that obtained no frame: the assignment
\* of l.272 is not reached
CaptureFailed(old) == old

\* the candidate after capture_image has obtained frame: self.current_image = frame.copy()
CaptureStore(old, frame) == frame

\* capture_image
capture_image ==
    /\ app = "v2"
    /\ IF ~camera_active
       THEN /\ lastOp' = "capture_inactive"
            /\ current_image' = CaptureFailed(current_image)
            /\ UNCHANGED <<frame_queue, frameNo>>
       ELSE IF USING_PICAMERA /\ backend # "none"
       THEN \/ /\ backend = "open"
               /\ frameNo < MaxFrames
               /\ frameNo' = frameNo + 1
               /\ current_image' = CaptureStore(current_image, frameNo + 1)
               /\ lastOp' = IF current_image = None THEN "capture_ok" ELSE "capture_replace"
               /\ UNCHANGED frame_queue
            \/ /\ lastOp' = "capture_error"
               /\ current_image' = CaptureFailed(current_image)
               /\ UNCHANGED <<frame_queue, frameNo>>
       ELSE IF frame_queue # <<>>
       THEN /\ current_image' = CaptureStore(current_image, Head(frame_queue))
            /\ frame_queue' = QueueGet(frame_queue)
            /\ lastOp' = IF current_image = None THEN "capture_ok" ELSE "capture_replace"
            /\ UNCHANGED frameNo
       ELSE /\ lastOp' = "capture_error"
            /\ current_image' = CaptureFailed(current_image)
            /\ UNCHANGED <<frame_queue, frameNo>>
    /\ UNCHANGED <<fixedVars, cameraVars, threadVars, captured_images, pages_scanned,
                   autoVars, timerVars, docVars, now, faults, files, scanVars, committed>>

\* ------------------------------------------------------------------ commit
\* a write that lands on the file of the page before
SavePageOverLast(fs, dir, name, index, image) ==
    WriteFile(fs, dir, PageFileName(name, index - 1), <<image>>, "page")

\* save_as_pdf(image, f"{output_dir}/{name}_{index:03d}.pdf") when it succeeds
SavePage(fs, dir, name, index, image) ==
    WriteFile(fs, dir, PageFileName(name, index), <<image>>, "page")

\* a commit that counts its page only once the page file is written
SaveBodyCountsAfterWrite(op) ==
    /\ captured_images' = Append(captured_images, current_image)
    /\ \/ /\ pages_scanned' = pages_scanned + 1
          /\ files' = SavePage(files, output_dir, current_doc_name,
                               pages_scanned + 1, current_image)
          /\ committed' = Append(committed, [image |-> current_image,
                                              index |-> pages_scanned + 1,
                                              name |-> current_doc_name])
          /\ current_image' = None
          /\ capturing' = IF auto_mode THEN FALSE ELSE capturing
          /\ lastOp' = op \o "_ok"
          /\ UNCHANGED faults
       \/ /\ faults < MaxFaults
          /\ faults' = faults + 1
          /\ lastOp' = op \o "_fail"
          /\ UNCHANGED <<pages_scanned, files, current_image, capturing, committed>>

\* the body of save_image with a candidate pending; op names the caller. The
\* list append and the counter increment come before save_as_pdf, inside the
\* try: when save_as_pdf raises they stay, and the rest of the body is skipped.
SaveBody(op) ==
    /\ captured_images' = Append(captured_images, current_image)
    /\ pages_scanned' = pages_scanned + 1
    /\ \/ /\ files' = SavePage(files, output_dir, current_doc_name,
                               pages_scanned + 1, current_image)
          /\ committed' = Append(committed, [image |-> current_image,
                                              index |-> pages_scanned + 1,
                                              name |-> current_doc_name])
          /\ current_image' = None
          /\ capturing' = IF auto_mode THEN FALSE ELSE capturing
          /\ lastOp' = op \o "_ok"
          /\ UNCHANGED faults
       \/ /\ faults < MaxFaults
          /\ faults' = faults + 1
          /\ lastOp' = op \o "_fail"
          /\ UNCHANGED <<files, current_image, capturing, committed>>

\* save_image, from the Save button
save_image ==
    /\ app = "v2"
    /\ IF current_image = None
       THEN /\ lastOp' = "save_none"
            /\ UNCHANGED <<sessionVars, capturing, files, faults, committed>>
       ELSE SaveBody("save")
    /\ UNCHANGED <<fixedVars, cameraVars, threadVars, frame_queue, frameNo, auto_mode,
                   timerVars, docVars, now, scanVars>>

\* a cancel that also takes the last page off the Document
cancel_capture_drops_page ==
    /\ app = "v2"
    /\ IF current_image = None
       THEN /\ lastOp' = "cancel_none"
            /\ UNCHANGED <<current_image, capturing, pages_scanned>>
       ELSE /\ current_image' = None
            /\ capturing' = IF auto_mode THEN FALSE ELSE capturing
            /\ pages_scanned' = IF pages_scanned > 0 THEN pages_scanned - 1 ELSE 0
            /\ lastOp' = "cancel_ok"
    /\ UNCHANGED <<fixedVars, cameraVars, threadVars, frame_queue, frameNo,
                   captured_images, auto_mode, timerVars, docVars, now, faults,
                   files, scanVars, committed>>

\* a cancel that resumes the auto cycle before it looks for a candidate
cancel_capture_resumes_first ==
    /\ app = "v2"
    /\ capturing' = IF auto_mode THEN FALSE ELSE capturing
    /\ IF current_image = None
       THEN /\ lastOp' = "cancel_none"
            /\ UNCHANGED current_image
       ELSE /\ current_image' = None
            /\ lastOp' = "cancel_ok"
    /\ UNCHANGED <<fixedVars, cameraVars, threadVars, frame_queue, frameNo,
                   captured_images, pages_scanned, auto_mode, timerVars, docVars, now, faults,
                   files, scanVars, committed>>

\* cancel_capture
cancel_capture ==
    /\ app = "v2"
    /\ IF current_image = None
       THEN /\ lastOp' = "cancel_none"
            /\ UNCHANGED <<current_image, capturing>>
       ELSE /\ current_image' = None
            /\ capturing' = IF auto_mode THEN FALSE ELSE capturing
            /\ lastOp' = "cancel_ok"
    /\ UNCHANGED <<fixedVars, cameraVars, threadVars, frame_queue, frameNo,
                   captured_images, pages_scanned, auto_mode, timerVars, docVars, now, faults,
                   files, scanVars, committed>>

\* ------------------------------------------------------------------ auto mode
\* toggle_auto_mode: flips the flag; turning it on resets capturing. No
\* pending window.after callback is cancelled.
toggle_auto_mode ==
    /\ app = "v2"
    /\ auto_mode' = ~auto_mode
    /\ capturing' = IF ~auto_mode THEN FALSE ELSE capturing
    /\ lastOp' = IF ~auto_mode THEN "auto_on" ELSE "auto_off"
    /\ UNCHANGED <<fixedVars, cameraVars, threadVars, frame_queue, frameNo, sessionVars,
                   timerVars, docVars, now, faults, files, scanVars, committed>>

\* auto_capture, run by the Tk main loop for one window.after(100, ...)
auto_capture ==
    /\ app = "v2"
    /\ afterAutoCapture > 0
    /\ afterAutoCapture' = afterAutoCapture - 1
    /\ IF ~auto_mode \/ ~camera_active
       THEN /\ capturing' = FALSE
            /\ lastOp' = "auto_capture_off"
            /\ UNCHANGED <<frame_queue, frameNo, current_image, afterAutoSave>>
       ELSE IF USING_PICAMERA /\ backend # "none"
       THEN \/ /\ backend = "open"
               /\ frameNo < MaxFrames
               /\ afterAutoSave < MaxAfter
               /\ frameNo' = frameNo + 1
               /\ current_image' = frameNo + 1
               /\ afterAutoSave' = afterAutoSave + 1
               /\ lastOp' = "auto_capture_ok"
               /\ UNCHANGED <<frame_queue, capturing>>
            \/ /\ capturing' = FALSE
               /\ lastOp' = "auto_capture_error"
               /\ UNCHANGED <<frame_queue, frameNo, current_image, afterAutoSave>>
       ELSE IF frame_queue # <<>>
       THEN /\ afterAutoSave < MaxAfter
            /\ current_image' = Head(frame_queue)
            /\ frame_queue' = QueueGet(frame_queue)
            /\ afterAutoSave' = afterAutoSave + 1
            /\ lastOp' = "auto_capture_ok"
            /\ UNCHANGED <<frameNo, capturing>>
       ELSE /\ capturing' = FALSE
            /\ lastOp' = "auto_capture_empty"
            /\ UNCHANGED <<frame_queue, frameNo, current_image, afterAutoSave>>
    /\ UNCHANGED <<fixedVars, cameraVars, threadVars, captured_images, pages_scanned,
                   auto_mode, afterUpdate, docVars, now, faults, files, scanVars, committed>>

\* auto_save, run by the Tk main loop for one window.after(2000, ...)
auto_save ==
    /\ app = "v2"
    /\ afterAutoSave > 0
    /\ afterAutoSave' = afterAutoSave - 1
    /\ IF current_image = None
       THEN /\ lastOp' = "auto_save_none"
            /\ UNCHANGED <<sessionVars, capturing, files, faults, committed>>
       ELSE SaveBody("auto_save")
    /\ UNCHANGED <<fixedVars, cameraVars, threadVars, frame_queue, frameNo, auto_mode,
                   afterUpdate, afterAutoCapture, docVars, now, scanVars>>

\* ------------------------------------------------------------------ assembly
\* Strategy A: sorted([f for f in os.listdir(dir) if f.endswith('.pdf')]), each
\* appended to a PdfMerger, written to the target
MergeFiles(fs, dir, tdir, tname) ==
    WriteFile(fs, tdir, tname, Concat(dir, Sorted(ListPdf(dir))), "merge")

\* every .pdf of the directory parses: PdfMerger.append raises on a truncated file
Readable(dir) == \A f \in files : f.dir = dir => f.by # "partial"

\* merger.write raised after it had opened the target: a truncated file stays
PartialFile(fs, tdir, tname) == WriteFile(fs, tdir, tname, <<>>, "partial")

\* Strategy B: one page per image of image_list, drawn with reportlab. With
\* captured_images empty the images are loaded from the page files with
\* PIL's Image.open, which cannot read PDF: every load fails and is skipped.
RenderList == IF captured_images # <<>> THEN captured_images ELSE <<>>

RenderFiles(fs, tdir, tname) == WriteFile(fs, tdir, tname, RenderList, "render")

\* a ratio taken as the larger of the two quotients
RatioMax(img) ==
    IF letter[1] * img[2] <= letter[2] * img[1]
    THEN <<letter[2], img[2]>> ELSE <<letter[1], img[1]>>

\* ratio = min(width / img_width, height / img_height), as the fraction
\* <<numerator, denominator>>: width / img_width is the smaller quotient
\* exactly when width * img_height <= height * img_width
Ratio(img) ==
    IF letter[1] * img[2] <= letter[2] * img[1]
    THEN <<letter[1], img[1]>> ELSE <<letter[2], img[2]>>

\* int(x) for the float product x of a side and the ratio, the exact product
\* being p / q: the fraction is cut off. ratio is a rounded float, so a
\* product that is a whole number exactly may come out just below it, and
\* int() then gives one less.
IntOf(p, q) ==
    IF p % q = 0 /\ p >= q THEN {p \div q, (p \div q) - 1} ELSE {p \div q}

\* what the loop of Strategy B does with one image of size img: new_width and
\* new_height, and the position handed to drawImage, kept as twice the
\* offsets (width - new_width, height - new_height) to stay in the integers
DrawImage(img) ==
    LET ratio == Ratio(img)
    IN  {[size |-> <<new_width, new_height>>,
          at2 |-> <<letter[1] - new_width, letter[2] - new_height>>] :
            new_width \in IntOf(img[1] * ratio[1], ratio[2]),
            new_height \in IntOf(img[2] * ratio[1], ratio[2])}

\* pil_img.resize((new_width, new_height)) raises on a side that is not
\* positive, which ends Strategy B in the outer except
Drawable(img) == \A d \in DrawImage(img) : d.size[1] > 0 /\ d.size[2] > 0

\* export_pdf after its empty-document test, for one answer of the save dialog
\* (tdir: where the user saves, under the suggested name {name}_complete.pdf),
\* one outcome of Strategy A and one outcome of Strategy B
ExportTo(op, tdir, a, b) ==
    LET tname == CompleteFileName(current_doc_name)
        where == IF tdir = Elsewhere THEN "_elsewhere" ELSE "_here"
        afterA == IF pages_scanned > 0 /\ a = "partial"
                  THEN PartialFile(files, tdir, tname) ELSE files
    IN  IF pages_scanned > 0 /\ a = "ok" /\ Readable(output_dir)
        THEN /\ Len(Concat(output_dir, Sorted(ListPdf(output_dir)))) <= MaxOutPages
             /\ files' = MergeFiles(files, output_dir, tdir, tname)
             /\ lastOp' = op \o "_merge" \o where
             /\ UNCHANGED faults
        ELSE /\ faults < MaxFaults
             /\ faults' = faults + 1
             /\ IF b = "ok" /\ Drawable(frame_size)
                THEN /\ files' = RenderFiles(afterA, tdir, tname)
                     /\ lastOp' = op \o "_render" \o where
                ELSE /\ files' = afterA
                     /\ lastOp' = op \o "_error" \o where

\* export_pdf as called with the name op
ExportBody(op) ==
    IF captured_images = <<>> /\ pages_scanned = 0
    THEN /\ lastOp' = op \o "_empty"
         /\ UNCHANGED <<files, faults>>
    ELSE \/ /\ lastOp' = op \o "_cancel"
            /\ UNCHANGED <<files, faults>>
         \/ \E tdir \in {output_dir, Elsewhere} :
            \E a \in {"ok", "unavailable", "partial"} :
            \E b \in {"ok", "fail"} :
                ExportTo(op, tdir, a, b)

\* export_pdf, from the File menu
export_pdf ==
    /\ app = "v2"
    /\ ExportBody("export")
    /\ UNCHANGED <<fixedVars, cameraVars, threadVars, frame_queue, frameNo, sessionVars,
                   autoVars, timerVars, docVars, now, scanVars, committed>>

\* ------------------------------------------------------------------ documents
\* the clock reaches the next second
Tick ==
    /\ now < 1 + MaxTime
    /\ now' = now + 1
    /\ lastOp' = "tick"
    /\ UNCHANGED <<fixedVars, cameraVars, threadVars, frame_queue, frameNo, sessionVars,
                   autoVars, timerVars, docVars, files, scanVars, faults, committed>>

\* a rename that starts the page numbering of the new name at 1
set_document_name_restarts ==
    /\ app = "v2"
    /\ \E name \in DocNames \cup {<<>>} :
          /\ current_doc_name' = IF name # <<>> THEN name ELSE current_doc_name
          /\ pages_scanned' = IF name # <<>> THEN 0 ELSE pages_scanned
          /\ lastOp' = IF name # <<>> THEN "rename_ok" ELSE "rename_none"
    /\ UNCHANGED <<fixedVars, cameraVars, threadVars, frame_queue, frameNo, current_image,
                   captured_images, autoVars, timerVars, output_dir, now, faults, files,
                   scanVars, committed>>

\* set_document_name: the prompt returns a name, or nothing
set_document_name ==
    /\ app = "v2"
    /\ \E name \in DocNames \cup {<<>>} :
          /\ current_doc_name' = IF name # <<>> THEN name ELSE current_doc_name
          /\ lastOp' = IF name # <<>> THEN "rename_ok" ELSE "rename_none"
    /\ UNCHANGED <<fixedVars, cameraVars, threadVars, frame_queue, frameNo, sessionVars,
                   autoVars, timerVars, output_dir, now, faults, files, scanVars, committed>>

\* f"scanned_document_{int(time.time())}" / f"document_scan_{int(time.time())}"
NewDir == now

\* a new_document that also discards the pending candidate
new_document_drops_candidate ==
    /\ app = "v2"
    /\ IF pages_scanned > 0
       THEN \/ ExportBody("newdoc")
            \/ /\ lastOp' = "newdoc_declined"
               /\ UNCHANGED <<files, faults>>
       ELSE /\ lastOp' = "newdoc_nopages"
            /\ UNCHANGED <<files, faults>>
    /\ output_dir' = NewDir
    /\ pages_scanned' = 0
    /\ captured_images' = <<>>
    /\ committed' = <<>>
    /\ current_image' = None
    /\ UNCHANGED <<fixedVars, cameraVars, threadVars, frame_queue, frameNo,
                   autoVars, timerVars, current_doc_name, now, scanVars>>

\* new_document: with pages scanned it asks whether to create the PDF and on
\* yes runs export_pdf; then it installs a fresh directory, counter and list
new_document ==
    /\ app = "v2"
    /\ IF pages_scanned > 0
       THEN \/ ExportBody("newdoc")
            \/ /\ lastOp' = "newdoc_declined"
               /\ UNCHANGED <<files, faults>>
       ELSE /\ lastOp' = "newdoc_nopages"
            /\ UNCHANGED <<files, faults>>
    /\ output_dir' = NewDir
    /\ pages_scanned' = 0
    /\ captured_images' = <<>>
    /\ committed' = <<>>
    /\ UNCHANGED <<fixedVars, cameraVars, threadVars, frame_queue, frameNo,
                   current_image, autoVars, timerVars, current_doc_name, now, scanVars>>

\* ------------------------------------------------------------------ scanner.py
\* process_and_save, from the SPACE key (viaKey) or the Capture button. It
\* reads the high-resolution frame, increments page_count and then calls
\* save_as_pdf. An exception leaves run() when the call came from the key
\* handler; raised inside the mouse callback it is printed and dropped.
process_and_save ==
    /\ app = "scanner"
    /\ scan_state = "running"
    /\ \E viaKey \in BOOLEAN :
       \/ /\ frameNo < MaxFrames
          /\ frameNo' = frameNo + 1
          /\ page_count' = page_count + 1
          /\ \/ /\ files' = SavePage(files, output_dir, current_doc_name,
                                     page_count + 1, frameNo + 1)
                /\ committed' = Append(committed, [image |-> frameNo + 1,
                                                    index |-> page_count + 1,
                                                    name |-> current_doc_name])
                /\ lastOp' = "scan_save_ok"
                /\ UNCHANGED <<scan_state, faults>>
             \/ /\ faults < MaxFaults
                /\ faults' = faults + 1
                /\ scan_state' = IF viaKey THEN "crashed" ELSE scan_state
                /\ lastOp' = "scan_save_fail"
                /\ UNCHANGED <<files, committed>>
       \/ /\ scan_state' = IF viaKey THEN "crashed" ELSE scan_state
          /\ lastOp' = "scan_read_fail"
          /\ UNCHANGED <<frameNo, page_count, files, faults, committed>>
    /\ UNCHANGED <<fixedVars, cameraVars, threadVars, frame_queue, sessionVars,
                   autoVars, timerVars, docVars, now>>

\* merge_pdfs: the sorted .pdf files of the directory merged into
\* {output_dir}/{name}_complete.pdf; nothing is written for an empty listing;
\* every exception is caught
merge_pdfs(op) ==
    LET tname == CompleteFileName(current_doc_name)
    IN  IF ListPdf(output_dir) = {}
        THEN /\ lastOp' = op \o "_nofiles"
             /\ UNCHANGED <<files, faults>>
        ELSE \/ /\ Readable(output_dir)
                /\ Len(Concat(output_dir, Sorted(ListPdf(output_dir)))) <= MaxOutPages
                /\ files' = MergeFiles(files, output_dir, output_dir, tname)
                /\ lastOp' = op \o "_merge"
                /\ UNCHANGED faults
             \/ /\ faults < MaxFaults
                /\ faults' = faults + 1
                /\ files' \in {files, PartialFile(files, output_dir, tname)}
                /\ lastOp' = op \o "_error"

\* create_new_document
create_new_document ==
    /\ output_dir' = NewDir
    /\ page_count' = 0
    /\ committed' = <<>>

\* the New Document button and the D key: with pages scanned the merge dialog
\* is shown (Yes runs merge_pdfs; No and ESC do not), then create_new_document
scan_new_document ==
    /\ app = "scanner"
    /\ scan_state = "running"
    /\ IF page_count > 0
       THEN \/ merge_pdfs("scan_newdoc")
            \/ /\ lastOp' = "scan_newdoc_declined"
               /\ UNCHANGED <<files, faults>>
       ELSE /\ lastOp' = "scan_newdoc_nopages"
            /\ UNCHANGED <<files, faults>>
    /\ create_new_document
    /\ UNCHANGED <<fixedVars, cameraVars, threadVars, frame_queue, frameNo, sessionVars,
                   autoVars, timerVars, current_doc_name, now, scan_state>>

\* the Set Name button and the N key
scan_set_name ==
    /\ app = "scanner"
    /\ scan_state = "running"
    /\ \E name \in DocNames \cup {<<>>} :
          /\ current_doc_name' = IF name # <<>> THEN name ELSE current_doc_name
          /\ lastOp' = IF name # <<>> THEN "scan_rename_ok" ELSE "scan_rename_none"
    /\ UNCHANGED <<fixedVars, cameraVars, threadVars, frame_queue, frameNo, sessionVars,
                   autoVars, timerVars, output_dir, now, faults, files, scanVars, committed>>

\* ESC: the loop ends, the camera is stopped, and with pages scanned the user
\* is asked whether to merge the last document
scan_quit ==
    /\ app = "scanner"
    /\ scan_state = "running"
    /\ scan_state' = "exited"
    /\ backend' = "none"
    /\ IF page_count > 0
       THEN \/ merge_pdfs("scan_quit")
            \/ /\ lastOp' = "scan_quit_declined"
               /\ UNCHANGED <<files, faults>>
       ELSE /\ lastOp' = "scan_quit_nopages"
            /\ UNCHANGED <<files, faults>>
    /\ UNCHANGED <<fixedVars, camera_active, stop_event, threadVars, frame_queue, frameNo,
                   sessionVars, autoVars, timerVars, docVars, now, page_count, committed>>

\* ------------------------------------------------------------------ specification
\* the steps of the acquisition threads
Stream == \E t \in Threads : camera_stream(t)

\* every operation of both programs
Next ==
    \/ Stream
    \/ start_camera
    \/ stop_camera
    \/ update_camera_canvas
    \/ capture_image
    \/ save_image
    \/ cancel_capture
    \/ toggle_auto_mode
    \/ auto_capture
    \/ auto_save
    \/ set_document_name
    \/ new_document
    \/ export_pdf
    \/ Tick
    \/ process_and_save
    \/ scan_new_document
    \/ scan_set_name
    \/ scan_quit

Spec == Init /\ [][Next]_vars

\* The camera-to-preview pipeline of PDFScannerApp: the acquisition threads,
\* the frame queue, the preview, camera start and stop, and the candidate
\* (capture and cancel). No page is committed.
NextStream ==
    \/ Stream
    \/ start_camera
    \/ stop_camera
    \/ update_camera_canvas
    \/ capture_image
    \/ cancel_capture

\* PDFScannerApp after construction
InitStream == InitCommon /\ InitV2 /\ frame_size = MainSize

SpecStream == InitStream /\ [][NextStream]_vars

\* The capture session of PDFScannerApp with its first acquisition thread:
\* manual capture, commit and cancel, and the auto-capture cycle.
NextSession ==
    \/ camera_stream(1)
    \/ update_camera_canvas
    \/ capture_image
    \/ save_image
    \/ cancel_capture
    \/ toggle_auto_mode
    \/ auto_capture
    \/ auto_save

\* PDFScannerApp after construction, with the camera started
InitSession == InitCommon /\ InitV2 /\ camera_active = TRUE /\ frame_size = MainSize

SpecSession == InitSession /\ [][NextSession]_vars

\* Pages, documents and assembly under one document name: PDFScannerApp on
\* the Pi camera (a capture reads the camera directly, so no acquisition-thread
\* step is needed) and SimpleDocumentScanner.
NextDocs ==
    \/ capture_image
    \/ save_image
    \/ cancel_capture
    \/ new_document
    \/ export_pdf
    \/ Tick
    \/ process_and_save
    \/ scan_new_document
    \/ scan_quit

\* PDFScannerApp on the Pi camera with the camera started, or
\* SimpleDocumentScanner in its run loop
InitDocs ==
    /\ InitCommon
    /\ (InitV2 /\ USING_PICAMERA = TRUE /\ camera_active = TRUE) \/ InitScanner
    /\ frame_size = MainSize

SpecDocs == InitDocs /\ [][NextDocs]_vars

\* Automatic capture of PDFScannerApp across new documents: the acquisition
\* thread, the auto-mode toggle, the two timers and new_document
NextTurnover ==
    \/ camera_stream(1)
    \/ update_camera_canvas
    \/ toggle_auto_mode
    \/ auto_capture
    \/ auto_save
    \/ new_document
    \/ Tick

\* PDFScannerApp on the Pi camera after construction, with the camera started
InitTurnover ==
    /\ InitCommon
    /\ InitV2 /\ USING_PICAMERA = TRUE /\ camera_active = TRUE
    /\ frame_size = MainSize

SpecTurnover == InitTurnover /\ [][NextTurnover]_vars

\* The capture session under the scheduling the program relies on: the
\* acquisition thread keeps running, and the Tk main loop runs every callback
\* handed to window.after. What the user does is not subject to fairness.
SpecAuto ==
    /\ SpecSession
    /\ WF_vars(camera_stream(1))
    /\ WF_vars(update_camera_canvas)
    /\ WF_vars(auto_capture)
    /\ WF_vars(auto_save)

\* Acquisition alone: the threads, camera start and stop, and the preview
\* that empties the queue.
NextAcquire ==
    \/ Stream
    \/ start_camera
    \/ stop_camera
    \/ update_camera_canvas

SpecAcquire == InitStream /\ [][NextAcquire]_vars

\* What the user does to the device and to the session, with the acquisition
\* thread held still: camera start and stop, capture, commit, cancel and the
\* auto-mode switch.
NextDevice ==
    \/ start_camera
    \/ stop_camera
    \/ capture_image
    \/ save_image
    \/ cancel_capture
    \/ toggle_auto_mode

SpecDevice == InitStream /\ [][NextDevice]_vars

\* Pages of one Document under changing document names: capture, commit and
\* rename in PDFScannerApp on the Pi camera, and in SimpleDocumentScanner.
NextNames ==
    \/ capture_image
    \/ save_image
    \/ cancel_capture
    \/ set_document_name
    \/ export_pdf
    \/ process_and_save
    \/ scan_set_name

SpecNames == InitDocs /\ [][NextNames]_vars

\* Strategy B over the frame sizes: PDFScannerApp on an OpenCV camera of any
\* size in ImageSizes, its acquisition thread, capture, commit and export.
NextRender ==
    \/ camera_stream(1)
    \/ capture_image
    \/ save_image
    \/ export_pdf

\* PDFScannerApp after construction on an OpenCV camera that has started
InitRender ==
    /\ InitCommon
    /\ InitV2
    /\ USING_PICAMERA = FALSE
    /\ camera_active = TRUE
    /\ frame_size \in ImageSizes

SpecRender == InitRender /\ [][NextRender]_vars

\* ------------------------------------------------------------------ claims
\* the images of the pages persisted for the active Document, in commit order
CommittedImages == [i \in 1..Len(committed) |-> committed[i].image]

\* the labels lastOp takes after capture_image
CaptureOps == {"capture_ok", "capture_replace", "capture_error", "capture_inactive"}

\* C1: for any sequence of captures and commits on one Document, the indices
\* given to the persisted pages are exactly 1..N in commit order, N being the
\* number of pages persisted. (Fails: a commit whose write failed has used up
\* an index, see C8.)
C1_IndicesContiguous == \A i \in 1..Len(committed) : committed[i].index = i

C3_CancelLeavesDocument ==
    [][(lastOp' \in CaptureOps \cup {"cancel_ok", "cancel_none"})
          => /\ pages_scanned' = pages_scanned
             /\ captured_images' = captured_images
             /\ files' = files
             /\ committed' = committed
             /\ lastOp' \in {"cancel_ok", "cancel_none"} => current_image' = None]_vars

\* a candidate was cancelled in a Document that holds a committed page
C3_Witness == lastOp = "cancel_ok" /\ pages_scanned > 0 /\ current_image = None

\* C4: once auto mode has been turned off, no armed auto_save timer commits:
\* with auto mode off before and after a step, the page count changes only by
\* a manual save. (Fails: toggle_auto_mode cancels no timer.)
C4_NoCommitAfterDisable ==
    [][(~auto_mode /\ ~auto_mode' /\ pages_scanned' # pages_scanned)
          => lastOp' \in {"save_ok", "save_fail"}]_vars

\* C5: when the acquisition thread has finished delivering its frame, the
\* queue holds that frame, whether or not the slot was occupied before.
\* (Fails: camera_stream skips the put when the queue is full.)
C5_PutReplaces ==
    [][\A t \in Threads :
          (tpc[t] \in {"full", "put"} /\ tpc'[t] = "after")
              => frame_queue' = <<tframe[t]>>]_vars

\* a consumer reads the frame from the queue rather than from the Pi camera
ReadsQueue == ~(USING_PICAMERA /\ backend # "none")

\* a step in which a consumer took the frame out of the queue
TookFrame ==
    \/ lastOp' = "update_frame"
    \/ ReadsQueue /\ lastOp' \in {"capture_ok", "capture_replace", "auto_capture_ok"}

\* a step in which a consumer tried to take from the empty queue
TookNothing ==
    /\ frame_queue = <<>>
    /\ \/ lastOp' \in {"update_empty", "auto_capture_empty"}
       \/ ReadsQueue /\ camera_active /\ lastOp' = "capture_error"

C7_NoFrameAfterStop ==
    [][(stop_event /\ stop_event')
          => (Len(frame_queue') <= Len(frame_queue) /\ frameNo' = frameNo)]_vars

\* C8: a commit whose page write fails leaves the page count, the committed
\* pages and the candidate as they were. (Fails: save_image and
\* process_and_save count the page, and save_image appends it, before writing.)
C8_FailedWriteLeavesSequence ==
    [][(lastOp' \in {"save_fail", "auto_save_fail", "scan_save_fail"})
          => /\ pages_scanned' = pages_scanned
             /\ captured_images' = captured_images
             /\ page_count' = page_count
             /\ current_image' = current_image]_vars

\* a new-document step that assembled the outgoing Document into its directory
AssembledHere == lastOp' \in {"newdoc_merge_here", "newdoc_render_here", "scan_newdoc_merge"}

\* C9: new_document with pages and the merge accepted yields an assembled
\* file whose pages are exactly the pages committed to the outgoing Document,
\* whatever exports and new documents came before. (Fails: Strategy A merges
\* every .pdf of the directory, an earlier assembled file included.)
C9_AssembledIsCommitted ==
    [][AssembledHere
          => FileIn(files', output_dir, CompleteFileName(current_doc_name)).content
                 = CommittedImages]_vars

\* a new-document step of either program, whatever the merge answer
NewDocumentStep ==
    lastOp' \in {"newdoc_merge_here", "newdoc_merge_elsewhere", "newdoc_render_here",
                 "newdoc_render_elsewhere", "newdoc_error_here", "newdoc_error_elsewhere",
                 "newdoc_cancel", "newdoc_declined", "newdoc_nopages",
                 "scan_newdoc_merge", "scan_newdoc_error", "scan_newdoc_nofiles",
                 "scan_newdoc_declined", "scan_newdoc_nopages"}

\* the labels of the new-document steps of PDFScannerApp
V2NewDocumentOps ==
    {"newdoc_merge_here", "newdoc_merge_elsewhere", "newdoc_render_here",
     "newdoc_render_elsewhere", "newdoc_error_here", "newdoc_error_elsewhere",
     "newdoc_cancel", "newdoc_declined", "newdoc_nopages"}

CommitOk == lastOp' \in {"save_ok", "auto_save_ok", "scan_save_ok"}

NextIndex == IF app = "v2" THEN pages_scanned + 1 ELSE page_count + 1

\* C11: Documents never share a directory, so a page committed to a Document
\* never overwrites a page file that exists already, even when two Documents
\* are created within one clock second under one name. (Fails: the directory
\* is named from int(time.time()).)
C11_CommitNeverOverwrites ==
    [][CommitOk => ~Exists(output_dir, PageFileName(current_doc_name, NextIndex))]_vars

\* a step in which export_pdf or merge_pdfs ran past the save dialog
AssembleOps ==
    {"export_empty", "export_merge_here", "export_merge_elsewhere", "export_render_here",
     "export_render_elsewhere", "export_error_here", "export_error_elsewhere",
     "newdoc_empty", "newdoc_merge_here", "newdoc_merge_elsewhere", "newdoc_render_here",
     "newdoc_render_elsewhere", "newdoc_error_here", "newdoc_error_elsewhere",
     "scan_newdoc_merge", "scan_newdoc_error", "scan_newdoc_nofiles",
     "scan_quit_merge", "scan_quit_error", "scan_quit_nofiles"}

\* the outcomes that report an empty Document
EmptyOutcomes == {"export_empty", "newdoc_empty", "scan_newdoc_nofiles", "scan_quit_nofiles"}

\* C12: assembling a Document with no committed page reports the empty
\* Document, writes no file and leaves count, pages and candidate unchanged.
\* (Fails: after a failed page write, see C8, the counter says one page.)
C12_EmptyDocumentNotAssembled ==
    [][(committed = <<>> /\ lastOp' \in AssembleOps)
          => /\ lastOp' \in EmptyOutcomes
             /\ files' = files
             /\ current_image' = current_image
             /\ lastOp' = "export_empty"
                   => (pages_scanned' = pages_scanned /\ captured_images' = captured_images)]_vars

\* the outcomes in which Strategy A failed, and those in which Strategy B ran
MergeFailedOps ==
    {"export_render_here", "export_render_elsewhere", "export_error_here",
     "export_error_elsewhere", "newdoc_render_here", "newdoc_render_elsewhere",
     "newdoc_error_here", "newdoc_error_elsewhere", "scan_newdoc_error", "scan_quit_error"}

RenderRanOps ==
    {"export_render_here", "export_render_elsewhere", "export_error_here",
     "export_error_elsewhere", "newdoc_render_here", "newdoc_render_elsewhere",
     "newdoc_error_here", "newdoc_error_elsewhere"}

\* C13: whenever Strategy A fails Strategy B is run, and when B succeeds the
\* output file holds B's result only. (Fails: merge_pdfs of scanner.py has no
\* Strategy B.)
C13_FallbackAlwaysRuns ==
    [][(lastOp' \in MergeFailedOps)
          => /\ lastOp' \in RenderRanOps
             /\ lastOp' \in {"export_render_here", "newdoc_render_here"}
                   => LET out == FileIn(files', output_dir, CompleteFileName(current_doc_name))
                      IN  out.by = "render" /\ out.content = captured_images]_vars

\* C14: when both strategies fail no partial output file is left at the
\* output path. (Fails: nothing removes what a failed write left behind.)
C14_NoPartialOutput ==
    [][(lastOp' \in {"export_error_here", "newdoc_error_here"})
          => ~\E f \in files' : /\ f.dir = output_dir
                                /\ f.name = CompleteFileName(current_doc_name)
                                /\ f.by = "partial"]_vars

\* the page files of the active Document in the order Strategy A appends them
PageFilesSorted == Sorted({f.name : f \in {g \in files : g.dir = output_dir /\ g.by = "page"}})

\* C15: the lexicographic order of the page-file names is the commit order,
\* for every history, a rename between two commits included. (Fails: the file
\* name starts with the document name.)
C15_SortedIsCommitOrder ==
    PageFilesSorted = [i \in 1..Len(committed) |->
                          PageFileName(committed[i].name, committed[i].index)]

\* C16: while auto mode stays enabled the auto-capture cycle never stalls:
\* whenever the capturing flag is set it is cleared again (the candidate was
\* committed, or the tick found no frame), so that the next capture can be
\* scheduled. (Fails: a commit whose write fails leaves capturing set.)
C16_AutoCycleNeverStalls == (auto_mode /\ capturing) ~> (~capturing \/ ~auto_mode)

\* C17: turning auto mode off leaves the candidate and the Document as they
\* were, and with auto mode off a pending candidate leaves the pending state
\* only by what the user does (commit, cancel, or a new capture, see C2).
\* (Fails: the auto_save timer armed before the toggle still commits, see C4.)
C17_DisableKeepsCandidate ==
    [][/\ lastOp' = "auto_off"
            => /\ current_image' = current_image
               /\ pages_scanned' = pages_scanned
               /\ captured_images' = captured_images
       /\ (~auto_mode /\ ~auto_mode' /\ current_image # None /\ current_image' # current_image)
            => lastOp' \in {"save_ok", "cancel_ok", "capture_replace"}]_vars

\* C18: a bad backend read never ends acquisition: a thread leaves a read for
\* the loop test (bad read) or the queue (good read), and it ends only at a
\* loop test that finds the camera inactive or stop requested.
C18_BadReadKeepsAcquiring ==
    [][\A t \in Threads :
          /\ (tpc[t] = "read" /\ tpc'[t] # "read") => tpc'[t] \in {"loop", "full"}
          /\ (tpc[t] # "none" /\ tpc'[t] = "none")
                => (tpc[t] = "loop" /\ (~camera_active \/ stop_event))]_vars

\* the first thread is back at the loop test after a read that gave no frame,
\* with the camera active and no stop requested
C18_Witness ==
    /\ tpc[1] = "loop" /\ lastOp = "stream" /\ frameNo = 0 /\ tframe[1] = None
    /\ camera_active /\ ~stop_event /\ backend = "open"

\* C20: with the camera running, a capture with no candidate pending obtains
\* a frame even when the preview has just taken the frame out of the queue.
\* (Fails: capture_image finds the single slot empty.)
C20_CaptureAfterPreviewTake ==
    [][(lastOp = "update_frame" /\ camera_active /\ ~USING_PICAMERA /\ current_image = None
            /\ lastOp' \in CaptureOps)
          => (lastOp' = "capture_ok" /\ current_image' # None)]_vars

\* C19: a capture requested while the camera is not active, or one whose
\* backend read raises (or finds no frame), is reported and changes nothing:
\* the candidate, the page count, the pages, the page files and the
\* auto-mode flag are as before, so a session without candidate stays so.
C19_FailedCaptureChangesNothing ==
    [][(lastOp' \in {"capture_inactive", "capture_error"})
          => /\ lastOp' = "capture_inactive" <=> ~camera_active
             /\ current_image' = current_image
             /\ pages_scanned' = pages_scanned
             /\ captured_images' = captured_images
             /\ files' = files
             /\ auto_mode' = auto_mode
             /\ capturing' = capturing
             /\ camera_active' = camera_active]_vars

\* a capture was refused on the stopped camera of a session that holds a
\* page, is in auto mode and has no candidate
C19_Witness ==
    /\ lastOp = "capture_inactive" /\ ~camera_active /\ current_image = None
    /\ pages_scanned > 0 /\ auto_mode

\* C21: a commit with a candidate pending whose write succeeds appends
\* exactly one Page, equal to the candidate, at the end of the Document: the
\* list grows by that one element, the page count by one, the page file
\* {name}_{count+1} holds the candidate, every earlier page and file is as
\* before, and the candidate is cleared.
C21_CommitAppendsCandidate ==
    [][(CommitOk /\ app = "v2")
          => /\ current_image # None
             /\ captured_images' = Append(captured_images, current_image)
             /\ pages_scanned' = pages_scanned + 1
             /\ committed' = Append(committed, [image |-> current_image,
                                                 index |-> pages_scanned + 1,
                                                 name |-> current_doc_name])
             /\ files \subseteq files'
             /\ \E f \in files' :
                    /\ f.dir = output_dir
                    /\ f.name = PageFileName(current_doc_name, pages_scanned + 1)
                    /\ f.content = <<current_image>>
             /\ current_image' = None]_vars

\* a second page has just been committed after the first, and no candidate
\* is left
C21_Witness ==
    /\ lastOp \in {"save_ok", "auto_save_ok"}
    /\ Len(captured_images) = 2 /\ pages_scanned = 2 /\ Len(committed) = 2
    /\ current_image = None

\* C22: the page count of the active Document never decreases under any
\* operation; it changes only by +1 at a commit that persists a page, and
\* goes back to 0 only at a new-document step. (Fails: a commit whose write
\* failed has already counted its page, see C8.)
C22_PageCountOnlyByCommit ==
    [][/\ pages_scanned' # pages_scanned
            => \/ CommitOk /\ pages_scanned' = pages_scanned + 1
               \/ NewDocumentStep /\ pages_scanned' = 0
       /\ page_count' # page_count
            => \/ CommitOk /\ page_count' = page_count + 1
               \/ NewDocumentStep /\ page_count' = 0]_vars

\* C23: the acquisition thread is never made to wait by the frame queue or
\* its consumer: whenever a thread is about to run frame_queue.put, the queue
\* has room, so the put returns at once. (Fails: the full() test and the put
\* are separate steps, and a thread that outlived stop_camera can fill the
\* slot between them.)
C23_PutNeverWaits ==
    \A t \in Threads : tpc[t] = "put" => Len(frame_queue) < 1

\* the new-document steps that did not offer the merge decision
NotOffered == lastOp' \in {"newdoc_nopages", "scan_newdoc_nopages"}

\* the new-document steps whose accepted merge assembled into the outgoing
\* directory
MergedOutgoing == lastOp' \in {"newdoc_merge_here", "scan_newdoc_merge"}

\* C24: a new-document step offers the merge decision exactly when the
\* outgoing Document holds a committed page; when the merge is accepted and
\* runs, the assembled file stands in the outgoing directory under the
\* outgoing name and holds every page committed to the outgoing Document, and
\* only then the count, the pages and the directory are those of a fresh
\* Document. (Fails: the offer is decided on the counter, which a failed
\* write has raised, see C8.)
C24_MergeOfferedIffPages ==
    [][NewDocumentStep
          => /\ ~NotOffered <=> committed # <<>>
             /\ MergedOutgoing
                  => \E f \in files' :
                        /\ f.dir = output_dir
                        /\ f.name = CompleteFileName(current_doc_name)
                        /\ f.by = "merge"
                        /\ \A i \in 1..Len(committed) :
                              \E j \in 1..Len(f.content) : f.content[j] = committed[i].image
             /\ pages_scanned' = 0 /\ page_count' = 0 /\ committed' = <<>>
             /\ output_dir' = NewDir]_vars

\* C25: a Page is created only by commit and never changed afterwards: the
\* in-memory list changes only when a commit that persists a page appends the
\* candidate, or when a new-document step empties it; every element already
\* in the list stays as it is under every other step, later captures
\* included; and every page file already written keeps its content. (Fails:
\* a commit whose write failed has appended its candidate, see C8; a page
\* file is overwritten by the commit of a later Document that shares the
\* directory, see C11.)
C25_PagesOnlyByCommit ==
    [][/\ captured_images' # captured_images
            => \/ CommitOk /\ captured_images' = Append(captured_images, current_image)
               \/ NewDocumentStep /\ captured_images' = <<>>
       /\ ~NewDocumentStep
            => \A i \in 1..Len(captured_images) :
                   /\ i <= Len(captured_images')
                   /\ captured_images'[i] = captured_images[i]
       /\ \A f \in files : f.by = "page" => f \in files']_vars

\* C26: the state of the capture session (candidate, auto-mode flag,
\* capturing flag, page count, pages) is written on the UI thread only: every
\* step of an acquisition thread leaves it as it was. (Fails: camera_stream
\* sets capturing itself when it arms auto_capture.)
C26_ThreadLeavesSession ==
    [][lastOp' = "stream"
          => UNCHANGED <<current_image, auto_mode, capturing, pages_scanned,
                         captured_images, committed>>]_vars

\* C27: stopping is idempotent and starting is guarded. stop_camera on a
\* camera that is not active changes nothing; stop_camera on an active camera
\* leaves it inactive, so a second stop changes nothing more; start_camera on
\* an active camera changes nothing and starts no thread.
C27_StopStartIdempotent ==
    [][/\ lastOp' \in {"stop_noop", "stop_ok"}
            => (lastOp' = "stop_noop" <=> ~camera_active)
       /\ lastOp' = "stop_ok" => ~camera_active' /\ stop_event' /\ backend' = "none"
       /\ lastOp' \in {"start_noop", "start_ok", "start_error"}
            => (lastOp' = "start_noop" <=> camera_active)
       /\ lastOp' \in {"stop_noop", "start_noop"}
            => UNCHANGED <<fixedVars, cameraVars, threadVars, frame_queue, frameNo,
                           sessionVars, autoVars, timerVars, docVars, now, faults,
                           files, scanVars, committed>>]_vars

\* stop_camera has just returned at once on a camera that an earlier
\* stop_camera had stopped, while the thread of that camera is still alive
C27_Witness ==
    /\ lastOp = "stop_noop" /\ ~camera_active /\ stop_event /\ backend = "none"
    /\ \E t \in Threads : tpc[t] # "none"

\* C28: save_image and cancel_capture with no candidate pending do nothing:
\* each takes its early return exactly when there is no candidate, and then
\* the page count, the pages, the page files, the candidate, the auto-mode
\* flag and the capturing flag are as before.
C28_NoCandidateNoOp ==
    [][/\ lastOp' \in {"save_none", "save_ok", "save_fail"}
            => (lastOp' = "save_none" <=> current_image = None)
       /\ lastOp' \in {"cancel_none", "cancel_ok"}
            => (lastOp' = "cancel_none" <=> current_image = None)
       /\ lastOp' \in {"save_none", "cancel_none"}
            => UNCHANGED <<pages_scanned, captured_images, committed, files,
                           current_image, auto_mode, capturing>>]_vars

\* Cancel has just been pressed with no candidate, in auto mode with the
\* cycle busy and one page in the Document
C28_Witness ==
    /\ lastOp = "cancel_none" /\ current_image = None
    /\ auto_mode /\ capturing /\ pages_scanned > 0

\* the steps in which Strategy B wrote its output
RenderedOps ==
    {"export_render_here", "export_render_elsewhere",
     "newdoc_render_here", "newdoc_render_elsewhere"}

RenameOps == {"rename_ok", "rename_none", "scan_rename_ok", "scan_rename_none"}

\* C30: a rename changes the name and nothing else. An empty or cancelled
\* answer leaves the name; a non-empty answer installs a name; in both cases
\* the page count, the pages, the page files, the candidate, the output
\* directory and the auto-mode flags are as before.
C30_RenameOnlyRenames ==
    [][lastOp' \in RenameOps
          => /\ lastOp' \in {"rename_none", "scan_rename_none"}
                  => current_doc_name' = current_doc_name
             /\ lastOp' \in {"rename_ok", "scan_rename_ok"}
                  => current_doc_name' \in DocNames /\ current_doc_name' # <<>>
             /\ UNCHANGED <<pages_scanned, page_count, captured_images, committed,
                            files, current_image, output_dir, auto_mode, capturing>>]_vars

\* a Document that holds a page and a pending candidate has just been renamed
C30_Witness ==
    /\ lastOp = "rename_ok" /\ current_doc_name = NameA
    /\ pages_scanned > 0 /\ current_image # None
    /\ \E f \in files : f.by = "page" /\ f.name = PageFileName(NameDocument, 1)

\* C31: an auto_save timer commits only the candidate it was armed for. At
\* most one such timer is armed, and a timer never commits a candidate that
\* a manual capture has put in place since it was armed: in particular the
\* commit of a firing timer never comes straight after a manual capture,
\* whose candidate no timer was armed for. (Fails: auto_save commits whatever
\* candidate is pending when it fires.)
C31_TimerCommitsItsCandidate ==
    [][/\ afterAutoSave' <= 1
       /\ lastOp' = "auto_save_ok"
            => lastOp \notin {"capture_ok", "capture_replace"}]_vars

\* C32: at most one acquisition thread is running at any time, whatever the
\* order of start_camera and stop_camera. (Fails: stop_camera does not wait
\* for its thread, and start_camera clears stop_event and starts another.)
C32_OneAcquisitionThread ==
    Cardinality({t \in Threads : tpc[t] # "none"}) <= 1

\* C33: in PDFScannerApp the in-memory list is as long as the page counter
\* says, after every step; so whenever Strategy B runs the list is not empty
\* and the images are taken from it, never decoded again from the page files.
C33_ListMatchesCounter ==
    [][app = "v2"
          => /\ Len(captured_images') = pages_scanned'
             /\ lastOp' \in RenderRanOps
                  => captured_images # <<>> /\ RenderList = captured_images]_vars

\* Strategy B has rendered a Document of two pages, one of which stems from
\* a commit whose write had failed
C33_Witness ==
    /\ app = "v2"
    /\ lastOp = "export_render_here"
    /\ pages_scanned = 2 /\ Len(captured_images) = 2
    /\ \E f \in files : f.by = "render" /\ f.content = captured_images

====
